---- MODULE Spec2Model ----
(***************************************************************************)
(* COVID-19 rule-based expert system (covid_expert_system.py): a Tkinter   *)
(* form over a CLIPS environment.  The form's handlers (diagnose, clear,   *)
(* the check buttons) are the actions; the CLIPS environment the handlers  *)
(* drive (reset, assert_string, run, clear, build) is modelled by the      *)
(* operators below with the CLIPS semantics the source relies on: a fact   *)
(* list in fact-index order without duplicates, an agenda of activations   *)
(* ordered by the default depth strategy, and a run that fires the top     *)
(* activation until the agenda is empty.                                   *)
(***************************************************************************)
EXTENDS Integers, Sequences, FiniteSets, TLC

VARIABLES
    symptom_vars,   \* self.symptom_vars: symptom -> 0/1 (the IntVar of each check button)
    env,            \* self.env: the CLIPS environment [rules, facts, agenda]
    result_text,    \* self.result_text: the lines shown in the result box
    fired_text,     \* self.fired_text: the lines shown in the fired-rules box
    diagnoses,      \* diagnose's local list `diagnoses` of the last request
    fired_rules,    \* diagnose's local list `fired_rules` of the last request
    fired,          \* history: the rules env.run() fired in the last request, in firing order
    trace,          \* history: the fact list at the start of the last env.run() and after each firing
    request,        \* history: the set of symptoms flagged at the last Diagnose request
    op,             \* history: the handler that ran last
    first_req,      \* history: <<>> or <<outcome of the first Diagnose request>>
    repeat,         \* history: whether the last Diagnose request was not the first one
    arg,            \* history: the fact given to the last direct assert_string call
    apps,           \* the instances of CovidExpertSystemApp of ConcSpec: caller -> instance
    who             \* history: the caller that took the last step of ConcSpec (0: none)

vars == <<symptom_vars, env, result_text, fired_text, diagnoses, fired_rules,
          fired, trace, request, op, first_req, repeat, arg, apps, who>>

----------------------------------------------------------------------------
(* Facts and rules *)

Range(s) == {s[i] : i \in 1..Len(s)}

\* An ordered fact (fever yes) has the implied template "fever" and the value
\* "yes"; a diagnosis fact has the template "diagnosis" and its result slot.
Fact(t, v) == [template |-> t, val |-> v]

\* The value of arg when the last call was not a direct assert_string.
NoFact == Fact("none", "none")

\* The keys of self.symptom_vars, in the dict's insertion order.
SymptomOrder == <<"fever", "cough", "loss_of_taste", "difficulty_breathing">>

Symptoms == Range(SymptomOrder)

LikelyMsg == "Likely COVID-19"

SevereMsg == "Possible severe COVID-19 - seek medical attention"

NoRuleMsg == "No COVID-19-specific rule was triggered.\nIf symptoms persist, consult a healthcare professional."

NoAgendaMsg == "(No items on the CLIPS agenda or agenda not available)"

\* The rules with the loss_of_taste pattern of covid-likely left out.
RuleBaseLoose ==
    << [name |-> "covid-likely",
        conditions |-> {Fact("fever", "yes"), Fact("cough", "yes")},
        conclusion |-> Fact("diagnosis", LikelyMsg)],
       [name |-> "covid-severe",
        conditions |-> {Fact("fever", "yes"), Fact("difficulty_breathing", "yes")},
        conclusion |-> Fact("diagnosis", SevereMsg)] >>

\* The two defrules of _build_rules, in the order they are built.
RuleBase ==
    << [name |-> "covid-likely",
        conditions |-> {Fact("fever", "yes"), Fact("cough", "yes"),
                        Fact("loss_of_taste", "yes")},
        conclusion |-> Fact("diagnosis", LikelyMsg)],
       [name |-> "covid-severe",
        conditions |-> {Fact("fever", "yes"), Fact("difficulty_breathing", "yes")},
        conclusion |-> Fact("diagnosis", SevereMsg)] >>

----------------------------------------------------------------------------
(* The CLIPS environment *)

\* Environment(): no constructs, no facts, an empty agenda.
Environment == [rules |-> <<>>, facts |-> <<>>, agenda |-> <<>>]

\* The orders in which rules activated by one and the same assertion may be
\* placed on the agenda (CLIPS leaves their relative order unspecified).
TieOrders(n) == {p \in [1..n -> 1..n] : \A i, j \in 1..n : i # j => p[i] # p[j]}

\* env.clear(): removes every construct and every fact.
env_clear(e) == Environment

\* An activation test that does not ask whether f is one of the patterns.
ActivatedAny(e, facts, f, tie) ==
    LET hit(i) == e.rules[i].conditions \subseteq Range(facts)
        idx == SelectSeq(tie, hit)
    IN  [k \in 1..Len(idx) |-> e.rules[idx[k]].name]

\* The rules of e, in the order `tie`, that fact f newly activates: f is one of
\* the rule's patterns and every pattern is matched by a fact of `facts`.
Activated(e, facts, f, tie) ==
    LET hit(i) == /\ f \in e.rules[i].conditions
                  /\ e.rules[i].conditions \subseteq Range(facts)
        idx == SelectSeq(tie, hit)
    IN  [k \in 1..Len(idx) |-> e.rules[idx[k]].name]

\* env.build(defrule): the rule is added after the rules already built; a rule
\* whose patterns are all matched by existing facts is activated at once.
env_build(e, r) ==
    [e EXCEPT !.rules = Append(@, r),
              !.agenda = IF r.conditions \subseteq Range(e.facts)
                         THEN <<r.name>> \o @ ELSE @]

\* A reset that keeps the facts.
reset_keep(e) == [e EXCEPT !.agenda = <<>>]

\* A reset that removes the symptom facts but keeps the diagnosis facts.
reset_keep_diag(e) ==
    LET isDiag(f) == f.template = "diagnosis"
    IN  [e EXCEPT !.facts = SelectSeq(@, isDiag), !.agenda = <<>>]

\* env.reset(): removes all facts and activations, keeps the constructs (no
\* deffacts are built, so no fact is asserted by the reset).
env_reset(e) == [e EXCEPT !.facts = <<>>, !.agenda = <<>>]

\* assert_string with the activations placed below the older ones (breadth
\* instead of depth).
assert_string_breadth(e, f, tie) ==
    IF f \in Range(e.facts) THEN e
    ELSE LET facts == Append(e.facts, f)
         IN  [e EXCEPT !.facts = facts,
                       !.agenda = @ \o Activated(e, facts, f, tie)]

\* assert_string that does not suppress a duplicate fact.
assert_string_dup(e, f, tie) ==
    LET facts == Append(e.facts, f)
    IN  [e EXCEPT !.facts = facts,
                  !.agenda = Activated(e, facts, f, tie) \o @]

\* env.assert_string(f), and the (assert f) of a rule's right-hand side: a fact
\* equal to an existing one is not added; a new fact gets the next fact index
\* and the rules it activates go on top of the agenda (depth strategy).
assert_string(e, f, tie) ==
    IF f \in Range(e.facts) THEN e
    ELSE LET facts == Append(e.facts, f)
         IN  [e EXCEPT !.facts = facts,
                       !.agenda = Activated(e, facts, f, tie) \o @]

\* The rule of e named n.
RuleNamed(e, n) == CHOOSE r \in Range(e.rules) : r.name = n

\* One cycle that leaves the fired activation on the agenda when its
\* conclusion was new.
fire_keep(e, tie) ==
    LET r  == RuleNamed(e, Head(e.agenda))
        e2 == assert_string(e, r.conclusion, tie)
    IN  IF r.conclusion \in Range(e.facts)
        THEN [e2 EXCEPT !.agenda = Tail(@)] ELSE e2

\* One cycle whose right-hand side replaces the fact list by the conclusion.
fire_replace(e, tie) ==
    LET r == RuleNamed(e, Head(e.agenda))
    IN  assert_string([e EXCEPT !.agenda = Tail(@), !.facts = <<>>], r.conclusion, tie)

\* One cycle whose asserted conclusion activates no rule.
fire_inert(e, tie) ==
    LET r == RuleNamed(e, Head(e.agenda))
    IN  [e EXCEPT !.agenda = Tail(@),
                  !.facts = IF r.conclusion \in Range(@) THEN @
                            ELSE Append(@, r.conclusion)]

\* One cycle of env.run(): the top activation leaves the agenda and the
\* right-hand side of its rule is executed.
fire(e, tie) ==
    LET r == RuleNamed(e, Head(e.agenda))
    IN  assert_string([e EXCEPT !.agenda = Tail(@)], r.conclusion, tie)

RECURSIVE run_loop(_, _, _, _)
\* env.run(): cycles until the agenda is empty.  Returns the environment, the
\* names of the rules fired and the fact list after each cycle.
run_loop(e, tie, log, tr) ==
    IF e.agenda = <<>>
    THEN [env |-> e, fired |-> log, trace |-> tr]
    ELSE LET e2 == fire(e, tie)
         IN  run_loop(e2, tie, Append(log, Head(e.agenda)), Append(tr, e2.facts))

\* A run limited to one firing.
run_once(e, tie) ==
    IF e.agenda = <<>>
    THEN [env |-> e, fired |-> <<>>, trace |-> <<e.facts>>]
    ELSE LET e2 == fire(e, tie)
         IN  [env |-> e2, fired |-> <<Head(e.agenda)>>, trace |-> <<e.facts, e2.facts>>]

run(e, tie) == run_loop(e, tie, <<>>, <<e.facts>>)

\* env.facts(): the facts in fact-index order.
facts_of(e) == e.facts

\* env.agenda(): the activations still on the agenda, top first.
agenda_of(e) == e.agenda

----------------------------------------------------------------------------
(* The application *)

\* _build_rules: clear the environment, then build the two defrules in order.
build_rules(e) == env_build(env_build(env_clear(e), RuleBase[1]), RuleBase[2])

\* The symptoms whose check button is on.
Selected(sv) == {s \in Symptoms : sv[s] # 0}

RECURSIVE AssertSymptoms(_, _, _, _)
\* The loop of diagnose over self.symptom_vars.items(): one (symptom yes)
\* fact per flagged symptom, in the dict's order.
AssertSymptoms(e, sv, order, tie) ==
    IF order = <<>> THEN e
    ELSE AssertSymptoms(
            IF sv[Head(order)] # 0
            THEN assert_string(e, Fact(Head(order), "yes"), tie) ELSE e,
            sv, Tail(order), tie)

\* A collection that does not test the template name.
CollectAll(e) == [k \in 1..Len(facts_of(e)) |-> facts_of(e)[k].val]

\* The result slots of the diagnosis facts, in fact-index order.
CollectDiagnoses(e) ==
    LET isDiag(f) == f.template = "diagnosis"
        ds == SelectSeq(facts_of(e), isDiag)
    IN  [k \in 1..Len(ds) |-> ds[k].val]

Outcome(sel, r, diag, fr) ==
    [sel |-> sel, facts |-> facts_of(r.env), fired |-> r.fired,
     diagnoses |-> diag, fired_rules |-> fr]

\* The callers of ConcSpec, each with an instance of its own.
NumCallers == 2

Callers == 1..NumCallers

\* The IntVars of an instance with the check buttons of S on.
Flags(S) == [s \in Symptoms |-> IF s \in S THEN 1 ELSE 0]

\* CovidExpertSystemApp(master): an environment of its own with the rules
\* built, here with the check buttons of S already set; pc is the statement
\* of diagnose the instance is at, i the position of its assert loop.
NewApp(S) ==
    [symptom_vars |-> Flags(S), env |-> build_rules(Environment), pc |-> "idle",
     i |-> 1, fired |-> <<>>, diagnoses |-> <<>>]

TypeOK ==
    /\ symptom_vars \in [Symptoms -> {0, 1}]
    /\ op \in {"init", "toggle", "diagnose", "clear",
              "assert", "reassert", "reset", "run", "rerun", "error", "retract", "load"}
    /\ request \subseteq Symptoms
    /\ repeat \in BOOLEAN

Init ==
    /\ symptom_vars = [s \in Symptoms |-> 0]
    /\ env = build_rules(Environment)
    /\ result_text = <<>>
    /\ fired_text = <<>>
    /\ diagnoses = <<>>
    /\ fired_rules = <<>>
    /\ fired = <<>>
    /\ trace = <<>>
    /\ request = {}
    /\ op = "init"
    /\ first_req = <<>>
    /\ repeat = FALSE
    /\ arg = NoFact
    /\ apps = [c \in Callers |-> NewApp({})]
    /\ who = 0

\* The user clicks the check button of symptom s.
Toggle(s) ==
    /\ symptom_vars' = [symptom_vars EXCEPT ![s] = 1 - @]
    /\ op' = "toggle"
    /\ UNCHANGED <<env, result_text, fired_text, diagnoses, fired_rules,
                   fired, trace, request, first_req, repeat, arg, apps, who>>

\* The Diagnose button.  hasAgenda: whether env.agenda() can be read; when it
\* cannot, the except branch leaves fired_rules empty.
Diagnose ==
    \E tie \in TieOrders(Len(env.rules)), hasAgenda \in BOOLEAN :
        LET e0   == env_reset(env)
            e1   == AssertSymptoms(e0, symptom_vars, SymptomOrder, tie)
            r    == run(e1, tie)
            diag == CollectDiagnoses(r.env)
            fr   == IF hasAgenda THEN agenda_of(r.env) ELSE <<>>
        IN  /\ env' = r.env
            /\ diagnoses' = diag
            /\ fired_rules' = fr
            /\ result_text' = IF diag # <<>> THEN diag ELSE <<NoRuleMsg>>
            /\ fired_text' = IF fr # <<>> THEN fr ELSE <<NoAgendaMsg>>
            /\ fired' = r.fired
            /\ trace' = r.trace
            /\ request' = Selected(symptom_vars)
            /\ op' = "diagnose"
            /\ first_req' = IF first_req = <<>>
                            THEN <<Outcome(Selected(symptom_vars), r, diag, fr)>>
                            ELSE first_req
            /\ repeat' = (first_req # <<>>)
            /\ UNCHANGED <<symptom_vars, arg, apps, who>>

\* A Clear that does not build the rules again.
ClearNoBuild ==
    /\ symptom_vars' = [s \in Symptoms |-> 0]
    /\ result_text' = <<>>
    /\ fired_text' = <<>>
    /\ env' = env_clear(env)
    /\ op' = "clear"
    /\ UNCHANGED <<diagnoses, fired_rules, fired, trace, request, first_req,
                   repeat, arg, apps, who>>

\* A Clear that leaves the check buttons as they are.
ClearKeepFlags ==
    /\ result_text' = <<>>
    /\ fired_text' = <<>>
    /\ env' = build_rules(env_clear(env))
    /\ op' = "clear"
    /\ UNCHANGED <<symptom_vars, diagnoses, fired_rules, fired, trace, request,
                   first_req, repeat, arg, apps, who>>

\* The Clear button.
Clear ==
    /\ symptom_vars' = [s \in Symptoms |-> 0]
    /\ result_text' = <<>>
    /\ fired_text' = <<>>
    /\ env' = build_rules(env_clear(env))
    /\ op' = "clear"
    /\ UNCHANGED <<diagnoses, fired_rules, fired, trace, request, first_req,
                   repeat, arg, apps, who>>

Next ==
    \/ \E s \in Symptoms : Toggle(s)
    \/ Diagnose
    \/ Clear

Spec == Init /\ [][Next]_vars

----------------------------------------------------------------------------
(* A Diagnose request whose env.run() raises.  The two rules give env.run()  *)
(* nothing to raise on, so Spec has no such step; FaultSpec adds it, with    *)
(* the run interrupted after any number of firings, to cover the except      *)
(* branch of diagnose.                                                       *)

RECURSIVE run_upto(_, _, _, _, _)
\* env.run() interrupted after at most k firings.
run_upto(e, tie, k, log, tr) ==
    IF k = 0 \/ e.agenda = <<>>
    THEN [env |-> e, fired |-> log, trace |-> tr]
    ELSE LET e2 == fire(e, tie)
         IN  run_upto(e2, tie, k - 1, Append(log, Head(e.agenda)), Append(tr, e2.facts))

\* A failing request that empties the result box before the run.
DiagnoseFailsCleared ==
    \E tie \in TieOrders(Len(env.rules)), k \in 0..Len(env.rules) :
        LET e0 == env_reset(env)
            e1 == AssertSymptoms(e0, symptom_vars, SymptomOrder, tie)
            r  == run_upto(e1, tie, k, <<>>, <<e1.facts>>)
        IN  /\ env' = r.env
            /\ fired' = r.fired
            /\ trace' = r.trace
            /\ request' = Selected(symptom_vars)
            /\ op' = "error"
            /\ result_text' = <<>>
            /\ UNCHANGED <<symptom_vars, fired_text, diagnoses,
                           fired_rules, first_req, repeat, arg, apps, who>>

\* The Diagnose button when env.run() raises after k firings: the error box
\* is shown and the handler returns before it collects or displays anything.
DiagnoseFails ==
    \E tie \in TieOrders(Len(env.rules)), k \in 0..Len(env.rules) :
        LET e0 == env_reset(env)
            e1 == AssertSymptoms(e0, symptom_vars, SymptomOrder, tie)
            r  == run_upto(e1, tie, k, <<>>, <<e1.facts>>)
        IN  /\ env' = r.env
            /\ fired' = r.fired
            /\ trace' = r.trace
            /\ request' = Selected(symptom_vars)
            /\ op' = "error"
            /\ UNCHANGED <<symptom_vars, result_text, fired_text, diagnoses,
                           fired_rules, first_req, repeat, arg, apps, who>>

FaultNext ==
    \/ Next
    \/ DiagnoseFails

FaultSpec == Init /\ [][FaultNext]_vars

----------------------------------------------------------------------------
(* The environment driven call by call.  The handlers above issue the calls *)
(* reset, assert_string, run and clear/build in one fixed pattern; here the *)
(* same calls are issued one at a time, in any order and with any fact of   *)
(* FactUniverse, as any caller of the environment may issue them.  fired,   *)
(* trace and arg describe the last call only; op names the last call, as    *)
(* "reassert" or "rerun" when it repeats the call before it.                *)

\* The facts a caller asserts: the four symptoms and the two diagnoses.
FactUniverse ==
    {Fact(s, "yes") : s \in Symptoms}
        \cup {Fact("diagnosis", LikelyMsg), Fact("diagnosis", SevereMsg)}

FormVars == <<symptom_vars, result_text, fired_text, diagnoses, fired_rules,
              request, first_req, repeat, apps, who>>

\* self.env.assert_string(f)
E_assert(f) ==
    \E tie \in TieOrders(Len(env.rules)) :
        /\ env' = assert_string(env, f, tie)
        /\ arg' = f
        /\ op' = IF op \in {"assert", "reassert"} /\ arg = f
                 THEN "reassert" ELSE "assert"
        /\ fired' = <<>>
        /\ trace' = <<>>
        /\ UNCHANGED FormVars

\* self.env.reset()
E_reset ==
    /\ env' = env_reset(env)
    /\ op' = "reset"
    /\ fired' = <<>>
    /\ trace' = <<>>
    /\ arg' = NoFact
    /\ UNCHANGED FormVars

\* self.env.run()
E_run ==
    \E tie \in TieOrders(Len(env.rules)) :
        LET r == run(env, tie)
        IN  /\ env' = r.env
            /\ fired' = r.fired
            /\ trace' = r.trace
            /\ op' = IF op \in {"run", "rerun"} THEN "rerun" ELSE "run"
            /\ arg' = NoFact
            /\ UNCHANGED FormVars

\* self.env.clear(); self._build_rules()
E_clear ==
    /\ env' = build_rules(env_clear(env))
    /\ op' = "clear"
    /\ fired' = <<>>
    /\ trace' = <<>>
    /\ arg' = NoFact
    /\ UNCHANGED FormVars

EngineNext ==
    \/ \E f \in FactUniverse : E_assert(f)
    \/ E_reset
    \/ E_run
    \/ E_clear

EngineSpec == Init /\ [][EngineNext]_vars

----------------------------------------------------------------------------
(* The fact store with retraction.  The source never retracts a fact; the   *)
(* operation is taken from the Fact Store contract (retract removes the     *)
(* fact if present), with the environment's rule that an activation leaves  *)
(* the agenda when a fact it matched is removed.                            *)

\* A retract that removes every fact of the template of f.
retract_template(e, f) ==
    LET keep(x) == x.template # f.template
        live(n) == f \notin RuleNamed(e, n).conditions
    IN  [e EXCEPT !.facts = SelectSeq(@, keep), !.agenda = SelectSeq(@, live)]

\* retract(f): the fact list without f, the other facts in their order; the
\* activations of the rules that matched f leave the agenda.
retract(e, f) ==
    IF f \notin Range(e.facts) THEN e
    ELSE LET keep(x) == x # f
             live(n) == f \notin RuleNamed(e, n).conditions
         IN  [e EXCEPT !.facts = SelectSeq(@, keep), !.agenda = SelectSeq(@, live)]

E_retract(f) ==
    /\ env' = retract(env, f)
    /\ arg' = f
    /\ op' = "retract"
    /\ fired' = <<>>
    /\ trace' = <<>>
    /\ UNCHANGED FormVars

StoreNext ==
    \/ EngineNext
    \/ \E f \in FactUniverse : E_retract(f)

StoreSpec == Init /\ [][StoreNext]_vars

----------------------------------------------------------------------------
(* The environment over other rule bases.  The environment is driven by the *)
(* rules built into it; here it is built with one of RuleBases (the two     *)
(* rules of the source among them, and bases in which the conclusion of a   *)
(* rule is a pattern of another), loaded with any set of facts as diagnose  *)
(* loads it (reset, then one assert_string per fact) and run.               *)

CriticalMsg == "Critical COVID-19"

\* A rule over the conclusions of the two rules of the source.
CriticalRule ==
    [name |-> "covid-critical",
     conditions |-> {Fact("diagnosis", LikelyMsg), Fact("diagnosis", SevereMsg)},
     conclusion |-> Fact("diagnosis", CriticalMsg)]

\* A rule whose conclusion is a pattern of the two rules of the source.
CoughRule ==
    [name |-> "cough-fever",
     conditions |-> {Fact("cough", "yes")},
     conclusion |-> Fact("fever", "yes")]

RuleBases ==
    { RuleBase,
      <<RuleBase[2]>>,
      <<RuleBase[1], RuleBase[2], CriticalRule>>,
      <<CriticalRule, RuleBase[2], RuleBase[1]>>,
      <<CoughRule, RuleBase[1], RuleBase[2], CriticalRule>> }

\* The order in which a set of facts is asserted.
FactOrder ==
    <<Fact("fever", "yes"), Fact("cough", "yes"), Fact("loss_of_taste", "yes"),
      Fact("difficulty_breathing", "yes"), Fact("diagnosis", LikelyMsg),
      Fact("diagnosis", SevereMsg), Fact("headache", "yes")>>

RECURSIVE BuildBase(_, _)
\* env.build of each rule of b, in order.
BuildBase(e, b) ==
    IF b = <<>> THEN e ELSE BuildBase(env_build(e, Head(b)), Tail(b))

RECURSIVE LoadFacts(_, _, _, _)
\* One assert_string per fact of F, in the order `order`.
LoadFacts(e, F, order, tie) ==
    IF order = <<>> THEN e
    ELSE LoadFacts(IF Head(order) \in F THEN assert_string(e, Head(order), tie) ELSE e,
                   F, Tail(order), tie)

\* reset, load F, run: the environment calls of one request.
Request(e, F, tie) == run(LoadFacts(env_reset(e), F, FactOrder, tie), tie)

RuleInit ==
    /\ symptom_vars = [s \in Symptoms |-> 0]
    /\ env \in {BuildBase(env_clear(Environment), b) : b \in RuleBases}
    /\ result_text = <<>>
    /\ fired_text = <<>>
    /\ diagnoses = <<>>
    /\ fired_rules = <<>>
    /\ fired = <<>>
    /\ trace = <<>>
    /\ request = {}
    /\ op = "init"
    /\ first_req = <<>>
    /\ repeat = FALSE
    /\ arg = NoFact
    /\ apps = [c \in Callers |-> NewApp({})]
    /\ who = 0

\* self.env.reset() and the assert_string calls of one request.
R_load(F) ==
    \E tie \in TieOrders(Len(env.rules)) :
        /\ op # "load"
        /\ env' = LoadFacts(env_reset(env), F, FactOrder, tie)
        /\ op' = "load"
        /\ fired' = <<>>
        /\ trace' = <<>>
        /\ UNCHANGED arg
        /\ UNCHANGED FormVars

\* self.env.run() on the loaded environment.
R_run ==
    \E tie \in TieOrders(Len(env.rules)) :
        LET r == run(env, tie)
        IN  /\ op = "load"
            /\ env' = r.env
            /\ fired' = r.fired
            /\ trace' = r.trace
            /\ op' = "run"
            /\ UNCHANGED arg
            /\ UNCHANGED FormVars

RuleNext ==
    \/ \E F \in SUBSET Range(FactOrder) : R_load(F)
    \/ R_run

RuleSpec == RuleInit /\ [][RuleNext]_vars

----------------------------------------------------------------------------
(* Several instances.  The source creates one instance and runs its         *)
(* handlers one after the other; ConcSpec creates NumCallers instances of   *)
(* the class, each with the self.env its constructor creates, and lets      *)
(* their diagnose handlers advance one environment call (and, inside        *)
(* env.run(), one cycle) at a time, in any interleaving.                    *)

\* The check-button settings the callers start with.
CallerSelections ==
    { {}, {"cough"}, {"fever", "cough", "loss_of_taste"},
      {"fever", "difficulty_breathing"}, Symptoms }

OneVars == <<symptom_vars, env, result_text, fired_text, diagnoses, fired_rules,
             fired, trace, request, op, first_req, repeat, arg>>

ConcInit ==
    /\ symptom_vars = [s \in Symptoms |-> 0]
    /\ env = build_rules(Environment)
    /\ result_text = <<>>
    /\ fired_text = <<>>
    /\ diagnoses = <<>>
    /\ fired_rules = <<>>
    /\ fired = <<>>
    /\ trace = <<>>
    /\ request = {}
    /\ op = "init"
    /\ first_req = <<>>
    /\ repeat = FALSE
    /\ arg = NoFact
    /\ apps \in [Callers -> {NewApp(S) : S \in CallerSelections}]
    /\ who = 0

\* A reset that resets the environment of every instance, as one environment
\* shared by all instances would be.
T_reset_shared(c) ==
    /\ apps[c].pc = "idle"
    /\ apps' = [d \in Callers |->
                  IF d = c
                  THEN [apps[d] EXCEPT !.env = env_reset(@), !.pc = "assert", !.i = 1]
                  ELSE [apps[d] EXCEPT !.env = env_reset(@)]]
    /\ who' = c
    /\ UNCHANGED OneVars

\* self.env.reset() of instance c.
T_reset(c) ==
    /\ apps[c].pc = "idle"
    /\ apps' = [apps EXCEPT ![c] = [@ EXCEPT !.env = env_reset(@),
                                             !.pc = "assert", !.i = 1]]
    /\ who' = c
    /\ UNCHANGED OneVars

\* One turn of the assert loop of instance c.
T_assert(c) ==
    \E tie \in TieOrders(Len(apps[c].env.rules)) :
        LET a == apps[c]
            s == SymptomOrder[a.i]
        IN  /\ a.pc = "assert"
            /\ apps' = [apps EXCEPT ![c] =
                    [a EXCEPT !.env = IF a.symptom_vars[s] # 0
                                      THEN assert_string(@, Fact(s, "yes"), tie) ELSE @,
                              !.i = a.i + 1,
                              !.pc = IF a.i = Len(SymptomOrder) THEN "run" ELSE "assert"]]
            /\ who' = c
            /\ UNCHANGED OneVars

\* One cycle of self.env.run() of instance c.
T_fire(c) ==
    \E tie \in TieOrders(Len(apps[c].env.rules)) :
        LET a == apps[c]
        IN  /\ a.pc = "run"
            /\ a.env.agenda # <<>>
            /\ apps' = [apps EXCEPT ![c] =
                    [a EXCEPT !.env = fire(@, tie),
                              !.fired = Append(@, Head(a.env.agenda))]]
            /\ who' = c
            /\ UNCHANGED OneVars

\* self.env.run() of instance c returns: the agenda is empty.
T_ran(c) ==
    /\ apps[c].pc = "run"
    /\ apps[c].env.agenda = <<>>
    /\ apps' = [apps EXCEPT ![c] = [@ EXCEPT !.pc = "collect"]]
    /\ who' = c
    /\ UNCHANGED OneVars

\* Instance c collects its diagnosis facts.
T_collect(c) ==
    /\ apps[c].pc = "collect"
    /\ apps' = [apps EXCEPT ![c] =
            [@ EXCEPT !.diagnoses = CollectDiagnoses(apps[c].env), !.pc = "done"]]
    /\ who' = c
    /\ UNCHANGED OneVars

ConcNext ==
    \E c \in Callers :
        \/ T_reset(c)
        \/ T_assert(c)
        \/ T_fire(c)
        \/ T_ran(c)
        \/ T_collect(c)

ConcSpec == ConcInit /\ [][ConcNext]_vars

----------------------------------------------------------------------------
(* Claims *)

SymptomFacts(S) == {Fact(s, "yes") : s \in S}

DiagnosisFacts(e) == {f \in Range(e.facts) : f.template = "diagnosis"}

\* The result strings the two rules derive from the symptom set S.
ExpectedDiagnoses(S) ==
    (IF {"fever", "cough", "loss_of_taste"} \subseteq S THEN {LikelyMsg} ELSE {})
        \cup (IF {"fever", "difficulty_breathing"} \subseteq S THEN {SevereMsg} ELSE {})

NoDuplicates(s) == \A i, j \in 1..Len(s) : i # j => s[i] # s[j]

\* The outcome of the request that has just been served.
CurrentOutcome ==
    [sel |-> request, facts |-> env.facts, fired |-> fired,
     diagnoses |-> diagnoses, fired_rules |-> fired_rules]

\* The cycles of the last run, the final one in which nothing fires included.
Cycles == Len(fired) + 1

\* C1: after a Diagnose request with symptom set S the diagnosis facts of the
\* environment, and the diagnoses read back, are exactly "Likely COVID-19" iff
\* fever, cough and loss_of_taste are in S and the severe one iff fever and
\* difficulty_breathing are in S; nothing else.
C1_DiagnosisTable ==
    op = "diagnose" =>
        /\ {f.val : f \in DiagnosisFacts(env)} = ExpectedDiagnoses(request)
        /\ Range(diagnoses) = ExpectedDiagnoses(request)
        /\ Len(diagnoses) = Cardinality(ExpectedDiagnoses(request))

C1_Witness ==
    /\ op = "diagnose"
    /\ request = {"fever", "cough", "loss_of_taste"}
    /\ diagnoses = <<LikelyMsg>>

\* C2: the fired-rule sequence reported for a Diagnose request (fired_rules,
\* which the fired-rules box displays) is the sequence of rules that fired
\* during the run of that request, and is empty iff no rule fired.
C2_FiredRulesReported ==
    op = "diagnose" =>
        /\ fired_rules = fired
        /\ (fired_rules = <<>> <=> fired = <<>>)
        /\ fired_text = (IF fired = <<>> THEN <<NoAgendaMsg>> ELSE fired)

\* C3 as stated: with all four symptoms flagged, covid-likely fires before
\* covid-severe and "Likely COVID-19" is asserted before the severe diagnosis.
C3_DeclarationOrder ==
    (op = "diagnose" /\ request = Symptoms) =>
        /\ fired = <<"covid-likely", "covid-severe">>
        /\ diagnoses = <<LikelyMsg, SevereMsg>>

\* C3 as amended: with all four symptoms flagged the rule activated last fires
\* first: covid-severe (activated by difficulty_breathing, the last symptom
\* asserted) fires before covid-likely, and the severe diagnosis is asserted,
\* and read back, before "Likely COVID-19".
C3_ActivationOrder ==
    (op = "diagnose" /\ request = Symptoms) =>
        /\ fired = <<"covid-severe", "covid-likely">>
        /\ diagnoses = <<SevereMsg, LikelyMsg>>
        /\ \E i, j \in 1..Len(env.facts) :
              /\ i < j
              /\ env.facts[i] = Fact("diagnosis", SevereMsg)
              /\ env.facts[j] = Fact("diagnosis", LikelyMsg)

C3_Witness ==
    /\ op = "diagnose"
    /\ request = Symptoms
    /\ Len(fired) = 2
    /\ Len(diagnoses) = 2

\* C4: a run() that follows a run() on the same environment with no call in
\* between fires no rule and leaves the environment unchanged.
C4_Quiescence ==
    [][(op' = "rerun") =>
        (fired' = <<>> /\ trace' = <<env.facts>> /\ env' = env)]_vars

C4_Witness ==
    /\ op = "rerun"
    /\ fired = <<>>
    /\ DiagnosisFacts(env) # {}
    /\ SymptomFacts(Symptoms) \subseteq Range(env.facts)

C6_Monotonic ==
    op \in {"diagnose", "run", "rerun"} =>
        /\ \A i \in 1..Len(trace) : Range(trace[1]) \subseteq Range(trace[i])
        /\ \A i \in 1..(Len(trace) - 1) :
              /\ Len(trace[i]) <= Len(trace[i + 1])
              /\ SubSeq(trace[i + 1], 1, Len(trace[i])) = trace[i]
        /\ trace[Len(trace)] = env.facts
        /\ (op = "diagnose" => SymptomFacts(request) \subseteq Range(env.facts))

C6_Witness ==
    /\ op = "diagnose"
    /\ request = {"fever", "cough", "difficulty_breathing"}
    /\ Len(trace) = 2
    /\ Len(trace[1]) = 3
    /\ Len(trace[2]) = 4

\* C7: an assert_string of the fact just asserted adds nothing (the fact is
\* not newly added) and leaves the fact list as the first call left it, and
\* no fact list ever holds two equal facts.
C7_AssertIdempotent ==
    /\ [](NoDuplicates(env.facts))
    /\ [][(op' = "reassert") =>
            (env' = env /\ Len(env'.facts) = Len(env.facts))]_vars
    /\ [][(op' \in {"assert", "reassert"}) =>
            /\ arg' \in Range(env'.facts)
            /\ (arg' \in Range(env.facts) => env'.facts = env.facts)
            /\ (arg' \notin Range(env.facts) => env'.facts = Append(env.facts, arg'))]_vars

C7_Witness ==
    /\ op = "reassert"
    /\ arg = Fact("cough", "yes")
    /\ env.facts = <<Fact("fever", "yes"), Fact("cough", "yes")>>

C9_RequestIsolation ==
    op = "diagnose" =>
        /\ request = Selected(symptom_vars)
        /\ Range(env.facts) =
              SymptomFacts(request)
                  \cup {Fact("diagnosis", m) : m \in ExpectedDiagnoses(request)}
        /\ NoDuplicates(env.facts)

C9_Witness ==
    /\ op = "diagnose"
    /\ repeat
    /\ first_req[1].sel = Symptoms
    /\ request = {"cough"}
    /\ env.facts = <<Fact("cough", "yes")>>

\* C10: in every state, hence wherever a Diagnose request can start, the rules
\* of the environment are the sequence covid-likely, covid-severe built at
\* startup.
C10_RuleBaseFixed ==
    /\ env.rules = RuleBase
    /\ [k \in 1..Len(env.rules) |-> env.rules[k].name] = <<"covid-likely", "covid-severe">>

C10_Witness ==
    /\ op = "clear"
    /\ first_req # <<>>
    /\ first_req[1].fired # <<>>
    /\ result_text = <<>>
    /\ env.rules = RuleBase

C14_ResultDisplay ==
    op = "diagnose" =>
        LET isDiag(f) == f.template = "diagnosis"
            ds == SelectSeq(env.facts, isDiag)
        IN  /\ (result_text = <<NoRuleMsg>>) <=> (DiagnosisFacts(env) = {})
            /\ (result_text = <<NoRuleMsg>>) <=> (ExpectedDiagnoses(request) = {})
            /\ DiagnosisFacts(env) # {} =>
                  /\ Len(result_text) = Len(ds)
                  /\ \A k \in 1..Len(ds) : result_text[k] = ds[k].val
                  /\ NoRuleMsg \notin Range(result_text)

C14_Witness ==
    /\ op = "diagnose"
    /\ request = {"cough", "loss_of_taste", "difficulty_breathing"}
    /\ result_text = <<NoRuleMsg>>

\* C16: after Clear every check button is off, both boxes are empty, the
\* environment holds no fact and the two rules; and a Diagnose issued right
\* after Clear derives no diagnosis and reports no fired rule.
C16_ClearAction ==
    /\ [](op = "clear" =>
            /\ \A s \in Symptoms : symptom_vars[s] = 0
            /\ result_text = <<>>
            /\ fired_text = <<>>
            /\ env.facts = <<>>
            /\ env.agenda = <<>>
            /\ env.rules = RuleBase)
    /\ [][(op = "clear" /\ op' = "diagnose") =>
            /\ diagnoses' = <<>>
            /\ fired' = <<>>
            /\ fired_rules' = <<>>
            /\ env'.facts = <<>>
            /\ result_text' = <<NoRuleMsg>>
            /\ fired_text' = <<NoAgendaMsg>>]_vars

C16_Witness ==
    /\ op = "clear"
    /\ diagnoses = <<SevereMsg, LikelyMsg>>
    /\ env.facts = <<>>
    /\ \A s \in Symptoms : symptom_vars[s] = 0

\* C17: a Diagnose request whose run raises leaves the result box and the
\* fired-rules box exactly as they were before the request; a request whose
\* run does not raise replaces both boxes by the outcome of this run.
C17_NoPartialDisplay ==
    /\ [][(op' = "error") =>
            /\ result_text' = result_text
            /\ fired_text' = fired_text
            /\ diagnoses' = diagnoses
            /\ fired_rules' = fired_rules]_vars
    /\ [][(op' = "diagnose") =>
            /\ result_text' = (IF CollectDiagnoses(env') = <<>>
                               THEN <<NoRuleMsg>> ELSE CollectDiagnoses(env'))
            /\ Range(result_text') \subseteq
                  ExpectedDiagnoses(Selected(symptom_vars)) \cup {NoRuleMsg}
            /\ fired_text' = (IF fired_rules' = <<>>
                              THEN <<NoAgendaMsg>> ELSE fired_rules')]_vars

C17_Witness ==
    /\ op = "error"
    /\ request = {"fever", "difficulty_breathing"}
    /\ Fact("diagnosis", SevereMsg) \in Range(env.facts)
    /\ result_text = <<LikelyMsg>>

\* C15: retract(f) removes f iff it was present (the fact list shrinks by one
\* exactly then), leaves every other fact in place and in order, leaves no
\* fact equal to f, and changes nothing when f is absent; reset and clear
\* can always be called and leave the fact list empty.
C15_RetractClear ==
    /\ [][(op' = "retract") =>
            LET keep(x) == x # arg'
            IN  /\ env'.facts = SelectSeq(env.facts, keep)
                /\ arg' \notin Range(env'.facts)
                /\ (arg' \in Range(env.facts) <=> Len(env'.facts) = Len(env.facts) - 1)
                /\ (arg' \notin Range(env.facts) => env' = env)
                /\ env'.rules = env.rules]_vars
    /\ [][(op' \in {"reset", "clear"}) => env'.facts = <<>>]_vars
    /\ [](ENABLED E_reset /\ ENABLED E_clear)

C15_Witness ==
    /\ op = "retract"
    /\ arg = Fact("diagnosis", LikelyMsg)
    /\ env.facts = <<Fact("fever", "yes"), Fact("cough", "yes"),
                     Fact("loss_of_taste", "yes")>>
    /\ env.agenda = <<>>

RECURSIVE Closure(_, _)
\* The least set that contains S and the conclusion of every rule whose
\* conditions are all in the set.
Closure(rules, S) ==
    LET new == {rules[i].conclusion :
                    i \in {j \in 1..Len(rules) : rules[j].conditions \subseteq S}}
    IN  IF new \subseteq S THEN S ELSE Closure(rules, S \cup new)

\* C11: after run() the facts are the least set that contains the facts the
\* run started from and the conclusion of every rule whose conditions are all
\* in the set; no rule has all its conditions in the fact list and its
\* conclusion not in it.
C11_Closure ==
    op = "run" =>
        /\ Range(env.facts) = Closure(env.rules, Range(trace[1]))
        /\ \A i \in 1..Len(env.rules) :
              env.rules[i].conditions \subseteq Range(env.facts)
                  => env.rules[i].conclusion \in Range(env.facts)
        /\ env.agenda = <<>>

C11_Witness ==
    /\ op = "run"
    /\ Len(env.rules) = 4
    /\ trace[1] = <<Fact("cough", "yes"), Fact("loss_of_taste", "yes"),
                    Fact("difficulty_breathing", "yes")>>
    /\ Fact("diagnosis", CriticalMsg) \in Range(env.facts)

\* The facts of S that no rule of `rules` has among its conditions.
Unreferenced(rules, S) ==
    {u \in S : \A i \in 1..Len(rules) : u \notin rules[i].conditions}

\* C13: a fact u that no rule has among its conditions is inert: the run on
\* the facts with u fires the rules the run on the facts without u fires, in
\* the same order, ends with the same facts and u, hence with the same
\* diagnosis facts (u apart, when u is itself a diagnosis fact that was
\* asserted directly), and leaves u in the fact list.
C13_Inert ==
    op = "run" =>
        \A u \in Unreferenced(env.rules, Range(trace[1])) :
            LET F  == Range(trace[1])
                F0 == F \ {u}
                isDiag(f) == f.template = "diagnosis"
            IN  /\ u \in Range(env.facts)
                /\ \E t \in TieOrders(Len(env.rules)) :
                      /\ Request(env, F0, t).fired = fired
                      /\ Range(Request(env, F0, t).env.facts) \cup {u} = Range(env.facts)
                /\ \A t \in TieOrders(Len(env.rules)) :
                      LET with == Request(env, F, t)
                          without == Request(env, F0, t)
                      IN  /\ with.fired = without.fired
                          /\ Range(with.env.facts) = Range(without.env.facts) \cup {u}
                          /\ u.template # "diagnosis" =>
                                SelectSeq(with.env.facts, isDiag)
                                    = SelectSeq(without.env.facts, isDiag)

C13_Witness ==
    /\ op = "run"
    /\ env.rules = RuleBase
    /\ trace[1] = <<Fact("fever", "yes"), Fact("difficulty_breathing", "yes"),
                    Fact("headache", "yes")>>
    /\ fired = <<"covid-severe">>
    /\ Fact("headache", "yes") \in Range(env.facts)

\* What an instance with the check buttons of S on obtains when it runs alone.
Alone(S) ==
    LET tie == CHOOSE t \in TieOrders(Len(RuleBase)) : TRUE
    IN  run(AssertSymptoms(env_reset(build_rules(Environment)), Flags(S),
                           SymptomOrder, tie), tie)

====
